---------------------------- MODULE Spec2Model ----------------------------
(***************************************************************************)
(* A model of clwind (src/src/lib.rs): the Color and Style code mappings,  *)
(* the CLW builder, Display::fmt and the four output helpers.              *)
(*                                                                         *)
(* Rust Strings are TLA+ strings.  The byte 0x1B is written ESC.           *)
(* Option<Color> is a Color record or None.                                *)
(***************************************************************************)
EXTENDS Integers, Sequences, FiniteSets

VARIABLES
    self,       \* the CLW value: [value, bg, text, font]
    prev,       \* the CLW value as it was before the most recent builder call
    arg,        \* the &str passed to clw()
    lastCall,   \* name of the most recent builder method called ("new" if none)
    textArg,    \* argument of the most recent text() call, None if none
    bgArg,      \* argument of the most recent bg() call, None if none
    fontArgs,   \* arguments of the font() calls, in call order
    stdout,     \* bytes written to standard output so far
    stderr,     \* bytes written to standard error so far
    renders,    \* strings returned by to_string() since the last builder call
    op,         \* the most recent operation
    nOps,       \* number of operations performed
    color,      \* SpecColor: the Color a code is computed for
    fgCode,     \* SpecColor: result of to_ansi_code, NotCalled before the call
    bgCode      \* SpecColor: result of to_bg_ansi_code, NotCalled before the call

vars == <<self, prev, arg, lastCall, textArg, bgArg, fontArgs, stdout, stderr,
          renders, op, nOps, color, fgCode, bgCode>>

-----------------------------------------------------------------------------
(* Bounds *)

\* operations (builder calls and outputs) in one behaviour of Spec
MaxOps == 4
\* convenience-setter calls chained in one behaviour of SpecSetters
MaxChain == 2

-----------------------------------------------------------------------------
(* Strings and integers *)

ESC == "<ESC>"

NotCalled == "<not called>"

Digits == <<"0", "1", "2", "3", "4", "5", "6", "7", "8", "9">>

\* Display of an unsigned integer: decimal, no padding, no sign.
RECURSIVE Dec(_)
Dec(n) == IF n < 10 THEN Digits[n + 1]
          ELSE Dec(n \div 10) \o Digits[(n % 10) + 1]

\* x as u8: truncation to the low 8 bits.
AsU8(x) == x % 256

\* h >> n on an unsigned integer.
Shr(h, n) == h \div (2 ^ n)

\* x & 0xFF.
AndFF(x) == x % 256

DigitVal(ch) == CHOOSE d \in 0..9 : Digits[d + 1] = ch

IsDigit(ch) == \E d \in 0..9 : Digits[d + 1] = ch

\* Accumulate decimal digits of s[i..] onto acc; -1 (Err) on a non-digit or
\* when the value leaves the u8 range.
RECURSIVE ParseDigits(_, _, _)
ParseDigits(s, i, acc) ==
    IF i > Len(s) THEN acc
    ELSE LET ch == SubSeq(s, i, i) IN
         IF ~IsDigit(ch) THEN -1
         ELSE LET v == acc * 10 + DigitVal(ch) IN
              IF v > 255 THEN -1 ELSE ParseDigits(s, i + 1, v)

\* str::parse::<u8>(): the value, or -1 for Err.  An optional leading '+'
\* is accepted; the empty string and a lone sign are errors.
ParseU8(s) ==
    LET start == IF Len(s) > 0 /\ SubSeq(s, 1, 1) = "+" THEN 2 ELSE 1 IN
    IF start > Len(s) THEN -1 ELSE ParseDigits(s, start, 0)

\* Result::unwrap_or(d)
UnwrapOr(r, d) == IF r = -1 THEN d ELSE r

\* [String]::join(sep)
RECURSIVE Join(_, _)
Join(codes, sep) ==
    IF Len(codes) = 0 THEN ""
    ELSE IF Len(codes) = 1 THEN codes[1]
    ELSE codes[1] \o sep \o Join(Tail(codes), sep)

-----------------------------------------------------------------------------
(* enum Color *)

NamedColors ==
    {"Black", "Red", "Green", "Yellow", "Blue", "Magenta", "Cyan", "White",
     "BrightBlack", "BrightRed", "BrightGreen", "BrightYellow", "BrightBlue",
     "BrightMagenta", "BrightCyan", "BrightWhite"}

None == [tag |-> "None"]

Named(n) == [tag |-> n]

Rgb(r, g, b) == [tag |-> "Rgb", r |-> r, g |-> g, b |-> b]

Color256(c) == [tag |-> "Color256", c |-> c]

Hex(h) == [tag |-> "Hex", h |-> h]

\* Variant: the named arm with the SGR terminator left on one code.
NamedCode_with_terminator(n) ==
    CASE n = "Black"         -> "30"
      [] n = "Red"           -> "31"
      [] n = "Green"         -> "32"
      [] n = "Yellow"        -> "33"
      [] n = "Blue"          -> "34"
      [] n = "Magenta"       -> "35"
      [] n = "Cyan"          -> "36"
      [] n = "White"         -> "37"
      [] n = "BrightBlack"   -> "90"
      [] n = "BrightRed"     -> "91"
      [] n = "BrightGreen"   -> "92"
      [] n = "BrightYellow"  -> "93"
      [] n = "BrightBlue"    -> "94"
      [] n = "BrightMagenta" -> "95"
      [] n = "BrightCyan"    -> "96"
      [] n = "BrightWhite"   -> "97m"

\* The arm of to_ansi_code's match for a named color.
NamedCode(n) ==
    CASE n = "Black"         -> "30"
      [] n = "Red"           -> "31"
      [] n = "Green"         -> "32"
      [] n = "Yellow"        -> "33"
      [] n = "Blue"          -> "34"
      [] n = "Magenta"       -> "35"
      [] n = "Cyan"          -> "36"
      [] n = "White"         -> "37"
      [] n = "BrightBlack"   -> "90"
      [] n = "BrightRed"     -> "91"
      [] n = "BrightGreen"   -> "92"
      [] n = "BrightYellow"  -> "93"
      [] n = "BrightBlue"    -> "94"
      [] n = "BrightMagenta" -> "95"
      [] n = "BrightCyan"    -> "96"
      [] n = "BrightWhite"   -> "97"

\* Variant: the red component without the cast to u8.
HexR_untruncated(h) == Shr(h, 16)

HexR(h) == AsU8(Shr(h, 16))

HexG(h) == AsU8(AndFF(Shr(h, 8)))

HexB(h) == AsU8(AndFF(h))

\* Color::to_ansi_code: the returned String.
to_ansi_code(c) ==
    CASE c.tag = "Rgb" ->
            "38;2;" \o Dec(c.r) \o ";" \o Dec(c.g) \o ";" \o Dec(c.b)
      [] c.tag = "Color256" -> "38;5;" \o Dec(c.c)
      [] c.tag = "Hex" ->
            "38;2;" \o Dec(HexR(c.h)) \o ";" \o Dec(HexG(c.h)) \o ";" \o Dec(HexB(c.h))
      [] OTHER -> NamedCode(c.tag)

\* Color::to_ansi_code: what it writes to standard output (the println! of
\* the Hex arm), "" for every other arm.
to_ansi_code_stdout(c) ==
    IF c.tag = "Hex"
    THEN Dec(HexR(c.h)) \o " " \o Dec(HexG(c.h)) \o " " \o Dec(HexB(c.h)) \o "\n"
    ELSE ""

\* Variant: the named arm without the + 10.
to_bg_ansi_code_no_offset(c) ==
    CASE c.tag = "Rgb" ->
            "48;2;" \o Dec(c.r) \o ";" \o Dec(c.g) \o ";" \o Dec(c.b)
      [] c.tag = "Color256" -> "48;5;" \o Dec(c.c)
      [] c.tag = "Hex" ->
            "48;2;" \o Dec(HexR(c.h)) \o ";" \o Dec(HexG(c.h)) \o ";" \o Dec(HexB(c.h))
      [] OTHER -> Dec(AsU8(UnwrapOr(ParseU8(to_ansi_code(c)), 30)))

\* Variant: the Rgb arm with the padding of a fixed-width format ({:03}).
to_bg_ansi_code_padded(c) ==
    LET Pad(n) == IF n < 10 THEN "00" \o Dec(n)
                  ELSE IF n < 100 THEN "0" \o Dec(n) ELSE Dec(n) IN
    CASE c.tag = "Rgb" ->
            "48;2;" \o Pad(c.r) \o ";" \o Pad(c.g) \o ";" \o Pad(c.b)
      [] c.tag = "Color256" -> "48;5;" \o Dec(c.c)
      [] c.tag = "Hex" ->
            "48;2;" \o Dec(HexR(c.h)) \o ";" \o Dec(HexG(c.h)) \o ";" \o Dec(HexB(c.h))
      [] OTHER -> Dec(AsU8(UnwrapOr(ParseU8(to_ansi_code(c)), 30) + 10))

\* The named arm of to_bg_ansi_code: self.to_ansi_code().parse::<u8>(),
\* -1 for Err.
bg_parsed(c) == ParseU8(to_ansi_code(c))

\* The named arm of to_bg_ansi_code: the mathematical value of
\* parse().unwrap_or(30) + 10, before it is fitted into a u8.  Above 255 the
\* u8 addition overflows: a panic with overflow checks on, a wrapped value
\* without them.
bg_sum(c) == UnwrapOr(bg_parsed(c), 30) + 10

\* Color::to_bg_ansi_code: the returned String.  Only the named arm calls
\* to_ansi_code, and never for Hex, so it writes nothing.  The u8 sum is
\* taken modulo 256 (the parsed value is at most 255).
to_bg_ansi_code(c) ==
    CASE c.tag = "Rgb" ->
            "48;2;" \o Dec(c.r) \o ";" \o Dec(c.g) \o ";" \o Dec(c.b)
      [] c.tag = "Color256" -> "48;5;" \o Dec(c.c)
      [] c.tag = "Hex" ->
            "48;2;" \o Dec(HexR(c.h)) \o ";" \o Dec(HexG(c.h)) \o ";" \o Dec(HexB(c.h))
      [] OTHER -> Dec(AsU8(bg_sum(c)))

-----------------------------------------------------------------------------
(* enum Style *)

Styles ==
    {"Bold", "Dim", "Italic", "Underline", "Blink", "Reverse", "Hidden",
     "Strikethrough"}

\* Style::to_ansi_code
style_to_ansi_code(s) ==
    CASE s = "Bold"          -> "1"
      [] s = "Dim"           -> "2"
      [] s = "Italic"        -> "3"
      [] s = "Underline"     -> "4"
      [] s = "Blink"         -> "5"
      [] s = "Reverse"       -> "7"
      [] s = "Hidden"        -> "8"
      [] s = "Strikethrough" -> "9"


-----------------------------------------------------------------------------
(* struct CLW and its builder *)

\* CLW::new
new(value) == [value |-> value, text |-> None, bg |-> None, font |-> <<>>]

\* pub fn clw
clw(str) == new(str)

\* CLW::text
text(s, c) == [s EXCEPT !.text = c]

\* CLW::bg
bg(s, c) == [s EXCEPT !.bg = c]

\* Variant: font() replacing the style list instead of appending to it.
font_replaces(s, style) == [s EXCEPT !.font = <<style>>]

\* CLW::font
font(s, style) == [s EXCEPT !.font = Append(s.font, style)]

(* The named convenience setters, one per method of the source. *)

text_black(s) == text(s, Named("Black"))

text_red(s) == text(s, Named("Red"))

text_green(s) == text(s, Named("Green"))

text_yellow(s) == text(s, Named("Yellow"))

text_blue(s) == text(s, Named("Blue"))

text_magenta(s) == text(s, Named("Magenta"))

text_cyan(s) == text(s, Named("Cyan"))

text_white(s) == text(s, Named("White"))

text_bright_black(s) == text(s, Named("BrightBlack"))

text_bright_red(s) == text(s, Named("BrightRed"))

text_bright_green(s) == text(s, Named("BrightGreen"))

text_bright_yellow(s) == text(s, Named("BrightYellow"))

text_bright_blue(s) == text(s, Named("BrightBlue"))

text_bright_magenta(s) == text(s, Named("BrightMagenta"))

text_bright_cyan(s) == text(s, Named("BrightCyan"))

text_bright_white(s) == text(s, Named("BrightWhite"))

bg_black(s) == bg(s, Named("Black"))

bg_red(s) == bg(s, Named("Red"))

bg_green(s) == bg(s, Named("Green"))

bg_yellow(s) == bg(s, Named("Yellow"))

bg_blue(s) == bg(s, Named("Blue"))

bg_magenta(s) == bg(s, Named("Magenta"))

bg_cyan(s) == bg(s, Named("Cyan"))

bg_white(s) == bg(s, Named("White"))

bg_bright_black(s) == bg(s, Named("BrightBlack"))

bg_bright_red(s) == bg(s, Named("BrightRed"))

bg_bright_green(s) == bg(s, Named("BrightGreen"))

bg_bright_yellow(s) == bg(s, Named("BrightYellow"))

bg_bright_blue(s) == bg(s, Named("BrightBlue"))

bg_bright_magenta(s) == bg(s, Named("BrightMagenta"))

\* Variant: bg_bright_cyan() setting the foreground.
bg_bright_cyan_sets_text(s) == text(s, Named("BrightCyan"))

bg_bright_cyan(s) == bg(s, Named("BrightCyan"))

bg_bright_white(s) == bg(s, Named("BrightWhite"))

font_bold(s) == font(s, "Bold")

font_dim(s) == font(s, "Dim")

font_italic(s) == font(s, "Italic")

font_underline(s) == font(s, "Underline")

font_blink(s) == font(s, "Blink")

font_reverse(s) == font(s, "Reverse")

font_hidden(s) == font(s, "Hidden")

font_strikethrough(s) == font(s, "Strikethrough")

TextSetterNames ==
    {"text_black", "text_red", "text_green", "text_yellow", "text_blue", "text_magenta", "text_cyan", "text_white", "text_bright_black", "text_bright_red", "text_bright_green", "text_bright_yellow", "text_bright_blue", "text_bright_magenta", "text_bright_cyan", "text_bright_white"}

\* Method dispatch: the call s.m() for a text_* method name m.
TextSetter(m, s) ==
    CASE m = "text_black" -> text_black(s)
      [] m = "text_red" -> text_red(s)
      [] m = "text_green" -> text_green(s)
      [] m = "text_yellow" -> text_yellow(s)
      [] m = "text_blue" -> text_blue(s)
      [] m = "text_magenta" -> text_magenta(s)
      [] m = "text_cyan" -> text_cyan(s)
      [] m = "text_white" -> text_white(s)
      [] m = "text_bright_black" -> text_bright_black(s)
      [] m = "text_bright_red" -> text_bright_red(s)
      [] m = "text_bright_green" -> text_bright_green(s)
      [] m = "text_bright_yellow" -> text_bright_yellow(s)
      [] m = "text_bright_blue" -> text_bright_blue(s)
      [] m = "text_bright_magenta" -> text_bright_magenta(s)
      [] m = "text_bright_cyan" -> text_bright_cyan(s)
      [] m = "text_bright_white" -> text_bright_white(s)

BgSetterNames ==
    {"bg_black", "bg_red", "bg_green", "bg_yellow", "bg_blue", "bg_magenta", "bg_cyan", "bg_white", "bg_bright_black", "bg_bright_red", "bg_bright_green", "bg_bright_yellow", "bg_bright_blue", "bg_bright_magenta", "bg_bright_cyan", "bg_bright_white"}

\* Method dispatch: the call s.m() for a bg_* method name m.
BgSetter(m, s) ==
    CASE m = "bg_black" -> bg_black(s)
      [] m = "bg_red" -> bg_red(s)
      [] m = "bg_green" -> bg_green(s)
      [] m = "bg_yellow" -> bg_yellow(s)
      [] m = "bg_blue" -> bg_blue(s)
      [] m = "bg_magenta" -> bg_magenta(s)
      [] m = "bg_cyan" -> bg_cyan(s)
      [] m = "bg_white" -> bg_white(s)
      [] m = "bg_bright_black" -> bg_bright_black(s)
      [] m = "bg_bright_red" -> bg_bright_red(s)
      [] m = "bg_bright_green" -> bg_bright_green(s)
      [] m = "bg_bright_yellow" -> bg_bright_yellow(s)
      [] m = "bg_bright_blue" -> bg_bright_blue(s)
      [] m = "bg_bright_magenta" -> bg_bright_magenta(s)
      [] m = "bg_bright_cyan" -> bg_bright_cyan(s)
      [] m = "bg_bright_white" -> bg_bright_white(s)

FontSetterNames ==
    {"font_bold", "font_dim", "font_italic", "font_underline", "font_blink", "font_reverse", "font_hidden", "font_strikethrough"}

\* Method dispatch: the call s.m() for a font_* method name m.
FontSetter(m, s) ==
    CASE m = "font_bold" -> font_bold(s)
      [] m = "font_dim" -> font_dim(s)
      [] m = "font_italic" -> font_italic(s)
      [] m = "font_underline" -> font_underline(s)
      [] m = "font_blink" -> font_blink(s)
      [] m = "font_reverse" -> font_reverse(s)
      [] m = "font_hidden" -> font_hidden(s)
      [] m = "font_strikethrough" -> font_strikethrough(s)

-----------------------------------------------------------------------------
(* impl fmt::Display for CLW *)

\* The codes pushed by the loop over self.font.
RECURSIVE StyleCodes(_)
StyleCodes(fs) ==
    IF Len(fs) = 0 THEN <<>>
    ELSE <<style_to_ansi_code(Head(fs))>> \o StyleCodes(Tail(fs))

\* Variant: the background code pushed before the foreground code.
fmt_codes_bg_first(s) ==
    (IF s.bg # None THEN <<to_bg_ansi_code(s.bg)>> ELSE <<>>)
    \o (IF s.text # None THEN <<to_ansi_code(s.text)>> ELSE <<>>)
    \o StyleCodes(s.font)

\* The Vec codes as fmt builds it: text, then bg, then the styles.
fmt_codes(s) ==
    (IF s.text # None THEN <<to_ansi_code(s.text)>> ELSE <<>>)
    \o (IF s.bg # None THEN <<to_bg_ansi_code(s.bg)>> ELSE <<>>)
    \o StyleCodes(s.font)

\* Variant: fmt without the match on codes.len(): always wrapped.
fmt_always_wraps(s) ==
    ESC \o "[" \o Join(fmt_codes(s), ";") \o "m" \o s.value \o ESC \o "[0m"

\* Display::fmt: what is written to the formatter.
fmt(s) ==
    LET codes == fmt_codes(s) IN
    IF Len(codes) = 0 THEN s.value
    ELSE ESC \o "[" \o Join(codes, ";") \o "m" \o s.value \o ESC \o "[0m"

\* Display::fmt: what is written to standard output while it runs, by the
\* to_ansi_code call on self.text (to_bg_ansi_code and Style::to_ansi_code
\* write nothing).
fmt_stdout(s) == IF s.text # None THEN to_ansi_code_stdout(s.text) ELSE ""

-----------------------------------------------------------------------------
(* Inputs *)

Payloads == {"", "plain"}

\* Hex(16746496) is Hex(0xFF8800).
BuilderColors ==
    {Named("Red"), Rgb(10, 20, 30), Color256(118), Hex(16746496)}

BuilderStyles == {"Bold", "Underline"}

Bytes == {0, 9, 10, 20, 30, 99, 100, 118, 136, 255}

RgbBytes == {0, 10, 20, 30, 255}

HighBytes == {0, 1, 127}

\* Hex arguments: 0xHHRRGGBB with HH ranging over HighBytes; they include
\* 0xFF8800 = 16746496 and 0x1FF8800 = 33523712.  TLC's integers are 32-bit
\* signed, so bit 31 stays clear.
HexValues ==
    {hh * 16777216 + r * 65536 + g * 256 + b :
        hh \in HighBytes, r \in {0, 255}, g \in {0, 136}, b \in {0, 1, 255}}

ColorInputs ==
    {Named(n) : n \in NamedColors}
    \cup {Rgb(r, g, b) : r \in RgbBytes, g \in RgbBytes, b \in RgbBytes}
    \cup {Color256(c) : c \in Bytes}
    \cup {Hex(h) : h \in HexValues}

-----------------------------------------------------------------------------
(* Spec: a CLW value is built by clw(), configured by text(), bg() and     *)
(* font(), rendered by to_string() and written by the output helpers.      *)

Init ==
    /\ arg \in Payloads
    /\ self = clw(arg)
    /\ prev = clw(arg)
    /\ lastCall = "new"
    /\ textArg = None
    /\ bgArg = None
    /\ fontArgs = <<>>
    /\ stdout = ""
    /\ stderr = ""
    /\ renders = <<>>
    /\ op = "clw"
    /\ nOps = 0
    /\ color = None
    /\ fgCode = NotCalled
    /\ bgCode = NotCalled

\* self = self.text(c)
CallText ==
    /\ nOps < MaxOps
    /\ \E c \in BuilderColors :
        /\ self' = text(self, c)
        /\ textArg' = c
    /\ prev' = self
    /\ lastCall' = "text"
    /\ renders' = <<>>
    /\ op' = "text"
    /\ nOps' = nOps + 1
    /\ UNCHANGED <<arg, bgArg, fontArgs, stdout, stderr, color, fgCode, bgCode>>

\* self = self.bg(c)
CallBg ==
    /\ nOps < MaxOps
    /\ \E c \in BuilderColors :
        /\ self' = bg(self, c)
        /\ bgArg' = c
    /\ prev' = self
    /\ lastCall' = "bg"
    /\ renders' = <<>>
    /\ op' = "bg"
    /\ nOps' = nOps + 1
    /\ UNCHANGED <<arg, textArg, fontArgs, stdout, stderr, color, fgCode, bgCode>>

\* self = self.font(style)
CallFont ==
    /\ nOps < MaxOps
    /\ \E style \in BuilderStyles :
        /\ self' = font(self, style)
        /\ fontArgs' = Append(fontArgs, style)
    /\ prev' = self
    /\ lastCall' = "font"
    /\ renders' = <<>>
    /\ op' = "font"
    /\ nOps' = nOps + 1
    /\ UNCHANGED <<arg, textArg, bgArg, stdout, stderr, color, fgCode, bgCode>>

\* Variant: a render that takes the styles out of the value (a draining
\* loop over self.font).
CallRender_drains_font ==
    /\ nOps < MaxOps
    /\ renders' = Append(renders, fmt(self))
    /\ stdout' = stdout \o fmt_stdout(self)
    /\ self' = [self EXCEPT !.font = <<>>]
    /\ op' = "render"
    /\ nOps' = nOps + 1
    /\ UNCHANGED <<prev, arg, lastCall, textArg, bgArg, fontArgs, stderr,
                   color, fgCode, bgCode>>

\* self.to_string(): Display::fmt into a String; self is borrowed, not moved.
CallRender ==
    /\ nOps < MaxOps
    /\ renders' = Append(renders, fmt(self))
    /\ stdout' = stdout \o fmt_stdout(self)
    /\ op' = "render"
    /\ nOps' = nOps + 1
    /\ UNCHANGED <<self, prev, arg, lastCall, textArg, bgArg, fontArgs, stderr,
                   color, fgCode, bgCode>>

\* self.print(): print!("{}", self)
CallPrint ==
    /\ nOps < MaxOps
    /\ stdout' = stdout \o fmt_stdout(self) \o fmt(self)
    /\ op' = "print"
    /\ nOps' = nOps + 1
    /\ UNCHANGED <<self, prev, arg, lastCall, textArg, bgArg, fontArgs, stderr,
                   renders, color, fgCode, bgCode>>

\* self.println(): println!("{}", self)
CallPrintln ==
    /\ nOps < MaxOps
    /\ stdout' = stdout \o fmt_stdout(self) \o fmt(self) \o "\n"
    /\ op' = "println"
    /\ nOps' = nOps + 1
    /\ UNCHANGED <<self, prev, arg, lastCall, textArg, bgArg, fontArgs, stderr,
                   renders, color, fgCode, bgCode>>

\* self.eprint(): eprint!("{}", self)
CallEprint ==
    /\ nOps < MaxOps
    /\ stdout' = stdout \o fmt_stdout(self)
    /\ stderr' = stderr \o fmt(self)
    /\ op' = "eprint"
    /\ nOps' = nOps + 1
    /\ UNCHANGED <<self, prev, arg, lastCall, textArg, bgArg, fontArgs,
                   renders, color, fgCode, bgCode>>

\* self.eprintln(): eprintln!("{}", self)
CallEprintln ==
    /\ nOps < MaxOps
    /\ stdout' = stdout \o fmt_stdout(self)
    /\ stderr' = stderr \o fmt(self) \o "\n"
    /\ op' = "eprintln"
    /\ nOps' = nOps + 1
    /\ UNCHANGED <<self, prev, arg, lastCall, textArg, bgArg, fontArgs,
                   renders, color, fgCode, bgCode>>

Next ==
    \/ CallText
    \/ CallBg
    \/ CallFont
    \/ CallRender
    \/ CallPrint
    \/ CallPrintln
    \/ CallEprint
    \/ CallEprintln

Spec == Init /\ [][Next]_vars

-----------------------------------------------------------------------------
(* SpecSetters: chains of the named convenience setters on a fresh value.  *)

CallTextNamed ==
    /\ nOps < MaxChain
    /\ \E m \in TextSetterNames :
        /\ self' = TextSetter(m, self)
        /\ lastCall' = m
    /\ prev' = self
    /\ op' = "text_*"
    /\ nOps' = nOps + 1
    /\ UNCHANGED <<arg, textArg, bgArg, fontArgs, stdout, stderr, renders,
                   color, fgCode, bgCode>>

CallBgNamed ==
    /\ nOps < MaxChain
    /\ \E m \in BgSetterNames :
        /\ self' = BgSetter(m, self)
        /\ lastCall' = m
    /\ prev' = self
    /\ op' = "bg_*"
    /\ nOps' = nOps + 1
    /\ UNCHANGED <<arg, textArg, bgArg, fontArgs, stdout, stderr, renders,
                   color, fgCode, bgCode>>

CallFontNamed ==
    /\ nOps < MaxChain
    /\ \E m \in FontSetterNames :
        /\ self' = FontSetter(m, self)
        /\ lastCall' = m
    /\ prev' = self
    /\ op' = "font_*"
    /\ nOps' = nOps + 1
    /\ UNCHANGED <<arg, textArg, bgArg, fontArgs, stdout, stderr, renders,
                   color, fgCode, bgCode>>

NextSetters ==
    \/ CallTextNamed
    \/ CallBgNamed
    \/ CallFontNamed

SpecSetters == Init /\ [][NextSetters]_vars

-----------------------------------------------------------------------------
(* SpecColor: the two code mappings applied to one Color.                  *)

InitColor ==
    /\ color \in ColorInputs
    /\ fgCode = NotCalled
    /\ bgCode = NotCalled
    /\ stdout = ""
    /\ stderr = ""
    /\ arg = ""
    /\ self = clw("")
    /\ prev = clw("")
    /\ lastCall = "new"
    /\ textArg = None
    /\ bgArg = None
    /\ fontArgs = <<>>
    /\ renders = <<>>
    /\ op = "none"
    /\ nOps = 0

\* color.to_ansi_code()
CallToAnsiCode ==
    /\ fgCode = NotCalled
    /\ fgCode' = to_ansi_code(color)
    /\ stdout' = stdout \o to_ansi_code_stdout(color)
    /\ op' = "to_ansi_code"
    /\ UNCHANGED <<self, prev, arg, lastCall, textArg, bgArg, fontArgs, stderr,
                   renders, nOps, color, bgCode>>

\* color.to_bg_ansi_code()
CallToBgAnsiCode ==
    /\ bgCode = NotCalled
    /\ bgCode' = to_bg_ansi_code(color)
    /\ op' = "to_bg_ansi_code"
    /\ UNCHANGED <<self, prev, arg, lastCall, textArg, bgArg, fontArgs, stdout,
                   stderr, renders, nOps, color, fgCode>>

NextColor ==
    \/ CallToAnsiCode
    \/ CallToBgAnsiCode

SpecColor == InitColor /\ [][NextColor]_vars

-----------------------------------------------------------------------------
(* Claims *)

Last(seq) == seq[Len(seq)]

\* s contains the byte ESC
ContainsESC(s) ==
    \E i \in 1..Len(s) : i + Len(ESC) - 1 <= Len(s) /\ SubSeq(s, i, i + Len(ESC) - 1) = ESC

\* Some of foreground, background, styles has been set by a builder call.
SomeSet == textArg # None \/ bgArg # None \/ fontArgs # <<>>

RECURSIVE C1_StyleTokens(_)
C1_StyleTokens(fs) ==
    IF fs = <<>> THEN <<>>
    ELSE <<style_to_ansi_code(fs[1])>> \o C1_StyleTokens(SubSeq(fs, 2, Len(fs)))

\* foreground code if text() was called, then background code if bg() was
\* called, then one code per font() call in call order
C1_Tokens ==
    (IF textArg # None THEN <<to_ansi_code(textArg)>> ELSE <<>>)
    \o (IF bgArg # None THEN <<to_bg_ansi_code(bgArg)>> ELSE <<>>)
    \o C1_StyleTokens(fontArgs)

\* C1: whenever a value with a foreground, a background or a style set has
\* been rendered, the rendered string is ESC [ tokens-joined-by-; m payload
\* ESC [ 0 m, the tokens being foreground, then background, then the styles
\* in font() call order, whatever the order of the text(), bg(), font() calls.
C1_RenderedForm ==
    (renders # <<>> /\ SomeSet) =>
        Last(renders) =
            ESC \o "[" \o Join(C1_Tokens, ";") \o "m" \o arg \o ESC \o "[0m"

\* bg() was called before text(), both are set, and the value was rendered
C1_Witness ==
    /\ renders # <<>>
    /\ lastCall = "text"
    /\ bgArg # None
    /\ fontArgs # <<>>

\* C2: rendering a value on which no builder call was made returns exactly
\* the payload passed to clw(), with no escape byte; and the rendered string
\* is wrapped in ESC [ ... ESC [ 0 m if and only if a foreground, a
\* background or a style is set.
C2_PlainPassThrough ==
    renders # <<>> =>
        /\ lastCall = "new" => (Last(renders) = arg /\ ~ContainsESC(Last(renders)))
        /\ SomeSet <=>
              /\ Len(Last(renders)) >= 2 * Len(ESC) + Len(arg) + 5
              /\ SubSeq(Last(renders), 1, Len(ESC) + 1) = ESC \o "["
              /\ SubSeq(Last(renders), Len(Last(renders)) - Len(ESC) - 2,
                        Len(Last(renders))) = ESC \o "[0m"

\* an unconfigured non-empty payload was rendered
C2_Witness ==
    /\ renders # <<>>
    /\ lastCall = "new"
    /\ arg = "plain"
    /\ Last(renders) = "plain"

C3_Foreground ==
    [ Black |-> "30", Red |-> "31", Green |-> "32", Yellow |-> "33",
      Blue |-> "34", Magenta |-> "35", Cyan |-> "36", White |-> "37",
      BrightBlack |-> "90", BrightRed |-> "91", BrightGreen |-> "92", BrightYellow |-> "93",
      BrightBlue |-> "94", BrightMagenta |-> "95", BrightCyan |-> "96", BrightWhite |-> "97" ]

C3_Background ==
    [ Black |-> "40", Red |-> "41", Green |-> "42", Yellow |-> "43",
      Blue |-> "44", Magenta |-> "45", Cyan |-> "46", White |-> "47",
      BrightBlack |-> "100", BrightRed |-> "101", BrightGreen |-> "102", BrightYellow |-> "103",
      BrightBlue |-> "104", BrightMagenta |-> "105", BrightCyan |-> "106", BrightWhite |-> "107" ]

\* C3: for each of the 16 named colors to_ansi_code returns the fixed
\* foreground string ("30".."37", "90".."97") and to_bg_ansi_code returns
\* the decimal string of that number plus 10 ("40".."47", "100".."107").
C3_NamedCodes ==
    color.tag \in NamedColors =>
        /\ fgCode # NotCalled => fgCode = C3_Foreground[color.tag]
        /\ bgCode # NotCalled => bgCode = C3_Background[color.tag]

\* both codes of BrightCyan have been computed
C3_Witness ==
    /\ color = Named("BrightCyan")
    /\ fgCode = "96"
    /\ bgCode = "106"

\* bits lo..lo+7 of h
C4_Bits(h, lo) == (h \div (2 ^ lo)) % 256

\* C4: Hex(h) has the foreground code "38;2;r;g;b" and the background code
\* "48;2;r;g;b" with r = bits 16-23, g = bits 8-15, b = bits 0-7 of h: the
\* codes of Rgb(r, g, b), and of Hex(h mod 2^24); Hex(0xFF8800) has the
\* foreground code "38;2;255;136;0".
C4_HexCodes ==
    color.tag = "Hex" =>
        LET h == color.h
            r == C4_Bits(h, 16)
            g == C4_Bits(h, 8)
            b == C4_Bits(h, 0)
        IN  /\ fgCode # NotCalled =>
                /\ fgCode = "38;2;" \o Dec(r) \o ";" \o Dec(g) \o ";" \o Dec(b)
                /\ fgCode = to_ansi_code(Rgb(r, g, b))
                /\ fgCode = to_ansi_code(Hex(h % 16777216))
                /\ h % 16777216 = 16746496 => fgCode = "38;2;255;136;0"
            /\ bgCode # NotCalled =>
                /\ bgCode = "48;2;" \o Dec(r) \o ";" \o Dec(g) \o ";" \o Dec(b)
                /\ bgCode = to_bg_ansi_code(Rgb(r, g, b))
                /\ bgCode = to_bg_ansi_code(Hex(h % 16777216))
                /\ h % 16777216 = 16746496 => bgCode = "48;2;255;136;0"

\* both codes of Hex(0x1FF8800), which has bit 24 set, have been computed
C4_Witness ==
    /\ color = Hex(33523712)
    /\ fgCode = "38;2;255;136;0"
    /\ bgCode = "48;2;255;136;0"

\* C5: Rgb(r, g, b) has the codes "38;2;r;g;b" and "48;2;r;g;b", Color256(idx)
\* has the codes "38;5;idx" and "48;5;idx", components in decimal without
\* padding; the background code is the foreground code with its leading 38
\* replaced by 48.
C5_RgbAndPaletteCodes ==
    /\ color.tag = "Rgb" =>
        LET tail == ";2;" \o Dec(color.r) \o ";" \o Dec(color.g) \o ";" \o Dec(color.b)
        IN  /\ fgCode # NotCalled => fgCode = "38" \o tail
            /\ bgCode # NotCalled => bgCode = "48" \o tail
    /\ color.tag = "Color256" =>
        LET tail == ";5;" \o Dec(color.c)
        IN  /\ fgCode # NotCalled => fgCode = "38" \o tail
            /\ bgCode # NotCalled => bgCode = "48" \o tail
    /\ (color.tag \in {"Rgb", "Color256"} /\ fgCode # NotCalled /\ bgCode # NotCalled) =>
        /\ SubSeq(fgCode, 1, 2) = "38"
        /\ bgCode = "48" \o SubSeq(fgCode, 3, Len(fgCode))
    /\ (color = Rgb(10, 20, 30) /\ fgCode # NotCalled) => fgCode = "38;2;10;20;30"
    /\ (color = Rgb(10, 20, 30) /\ bgCode # NotCalled) => bgCode = "48;2;10;20;30"
    /\ (color = Color256(118) /\ fgCode # NotCalled) => fgCode = "38;5;118"
    /\ (color = Color256(118) /\ bgCode # NotCalled) => bgCode = "48;5;118"

\* both codes of Color256(118) have been computed
C5_Witness ==
    /\ color = Color256(118)
    /\ fgCode = "38;5;118"
    /\ bgCode = "48;5;118"

\* C6: rendering is side-effect-free: computing a foreground or background
\* code and rendering a value leave standard output and standard error as
\* they were.
C6_RenderWritesNothing ==
    [][op' \in {"render", "to_ansi_code", "to_bg_ansi_code"} =>
          (stdout' = stdout /\ stderr' = stderr)]_vars

\* C7: the payload is the string passed to clw(); the foreground is the
\* argument of the most recent text() call and the background that of the
\* most recent bg() call (absent if there was none); the style list is the
\* font() arguments in call order, duplicates included; and each builder
\* call leaves the other three fields as they were.
C7_BuilderFields ==
    /\ self.value = arg
    /\ self.text = textArg
    /\ self.bg = bgArg
    /\ self.font = fontArgs
    /\ lastCall = "text" =>
          (self.value = prev.value /\ self.bg = prev.bg /\ self.font = prev.font)
    /\ lastCall = "bg" =>
          (self.value = prev.value /\ self.text = prev.text /\ self.font = prev.font)
    /\ lastCall = "font" =>
          (self.value = prev.value /\ self.text = prev.text /\ self.bg = prev.bg)

\* font() was called twice with the same style, then text() twice with
\* different colors
C7_Witness ==
    /\ lastCall = "text"
    /\ prev.text # None
    /\ prev.text # textArg
    /\ Len(fontArgs) = 2
    /\ fontArgs[1] = fontArgs[2]

\* The general setter and enum value each convenience setter is named after.
C8_Matching ==
    [ text_black |-> [setter |-> "text", value |-> "Black"],
      text_red |-> [setter |-> "text", value |-> "Red"],
      text_green |-> [setter |-> "text", value |-> "Green"],
      text_yellow |-> [setter |-> "text", value |-> "Yellow"],
      text_blue |-> [setter |-> "text", value |-> "Blue"],
      text_magenta |-> [setter |-> "text", value |-> "Magenta"],
      text_cyan |-> [setter |-> "text", value |-> "Cyan"],
      text_white |-> [setter |-> "text", value |-> "White"],
      text_bright_black |-> [setter |-> "text", value |-> "BrightBlack"],
      text_bright_red |-> [setter |-> "text", value |-> "BrightRed"],
      text_bright_green |-> [setter |-> "text", value |-> "BrightGreen"],
      text_bright_yellow |-> [setter |-> "text", value |-> "BrightYellow"],
      text_bright_blue |-> [setter |-> "text", value |-> "BrightBlue"],
      text_bright_magenta |-> [setter |-> "text", value |-> "BrightMagenta"],
      text_bright_cyan |-> [setter |-> "text", value |-> "BrightCyan"],
      text_bright_white |-> [setter |-> "text", value |-> "BrightWhite"],
      bg_black |-> [setter |-> "bg", value |-> "Black"],
      bg_red |-> [setter |-> "bg", value |-> "Red"],
      bg_green |-> [setter |-> "bg", value |-> "Green"],
      bg_yellow |-> [setter |-> "bg", value |-> "Yellow"],
      bg_blue |-> [setter |-> "bg", value |-> "Blue"],
      bg_magenta |-> [setter |-> "bg", value |-> "Magenta"],
      bg_cyan |-> [setter |-> "bg", value |-> "Cyan"],
      bg_white |-> [setter |-> "bg", value |-> "White"],
      bg_bright_black |-> [setter |-> "bg", value |-> "BrightBlack"],
      bg_bright_red |-> [setter |-> "bg", value |-> "BrightRed"],
      bg_bright_green |-> [setter |-> "bg", value |-> "BrightGreen"],
      bg_bright_yellow |-> [setter |-> "bg", value |-> "BrightYellow"],
      bg_bright_blue |-> [setter |-> "bg", value |-> "BrightBlue"],
      bg_bright_magenta |-> [setter |-> "bg", value |-> "BrightMagenta"],
      bg_bright_cyan |-> [setter |-> "bg", value |-> "BrightCyan"],
      bg_bright_white |-> [setter |-> "bg", value |-> "BrightWhite"],
      font_bold |-> [setter |-> "font", value |-> "Bold"],
      font_dim |-> [setter |-> "font", value |-> "Dim"],
      font_italic |-> [setter |-> "font", value |-> "Italic"],
      font_underline |-> [setter |-> "font", value |-> "Underline"],
      font_blink |-> [setter |-> "font", value |-> "Blink"],
      font_reverse |-> [setter |-> "font", value |-> "Reverse"],
      font_hidden |-> [setter |-> "font", value |-> "Hidden"],
      font_strikethrough |-> [setter |-> "font", value |-> "Strikethrough"] ]

\* s.text(Color::V), s.bg(Color::V) or s.font(Style::V), as m is named
C8_General(m, s) ==
    LET g == C8_Matching[m] IN
    CASE g.setter = "text" -> text(s, Named(g.value))
      [] g.setter = "bg"   -> bg(s, Named(g.value))
      [] g.setter = "font" -> font(s, g.value)

\* C8: every convenience setter leaves the value in the state the general
\* setter with the matching enum value leaves it in, and the two render
\* identically; there is one for each of the 16 named colors as foreground
\* and as background and for each of the 8 styles.
C8_ConvenienceSetters ==
    /\ DOMAIN C8_Matching = TextSetterNames \cup BgSetterNames \cup FontSetterNames
    /\ {C8_Matching[m].value : m \in TextSetterNames} = NamedColors
    /\ {C8_Matching[m].value : m \in BgSetterNames} = NamedColors
    /\ {C8_Matching[m].value : m \in FontSetterNames} = Styles
    /\ lastCall # "new" =>
        /\ self = C8_General(lastCall, prev)
        /\ fmt(self) = fmt(C8_General(lastCall, prev))
        /\ fmt_stdout(self) = fmt_stdout(C8_General(lastCall, prev))

\* bg_bright_cyan() was called on a value that already had a foreground
C8_Witness ==
    /\ lastCall = "bg_bright_cyan"
    /\ prev.text # None
    /\ self.bg = Named("BrightCyan")

\* C9: print() appends the rendered string to standard output, println()
\* the rendered string and a newline; eprint() and eprintln() do the same to
\* standard error; the other stream is left as it was and nothing else is
\* written.
C9_HelpersWriteRender ==
    [][/\ op' = "print" => (stdout' = stdout \o fmt(self) /\ stderr' = stderr)
       /\ op' = "println" => (stdout' = stdout \o fmt(self) \o "\n" /\ stderr' = stderr)
       /\ op' = "eprint" => (stderr' = stderr \o fmt(self) /\ stdout' = stdout)
       /\ op' = "eprintln" => (stderr' = stderr \o fmt(self) \o "\n" /\ stdout' = stdout)
      ]_vars

\* C10: a render leaves payload, foreground, background and style list as
\* they were, and a second render with no builder call in between returns
\* the string the first returned.
C10_RenderIdempotent ==
    [][op' = "render" =>
          /\ self' = self
          /\ renders # <<>> => Last(renders') = Last(renders)]_vars

\* a value with a foreground was rendered twice in a row
C10_Witness ==
    /\ Len(renders) = 2
    /\ op = "render"
    /\ self.text # None
    /\ renders[1] = renders[2]

\* C11: for each of the 16 named colors the background code is derived
\* without failure: the foreground string parses as a u8, so the
\* unwrap_or(30) fallback is not taken and only Black yields "40"; and the
\* parsed value plus 10 is at most 107, within the u8 range, so the addition
\* neither overflows nor panics and the result is the decimal of the sum.
C11_BgDerivationTotal ==
    (color.tag \in NamedColors /\ bgCode # NotCalled) =>
        /\ bg_parsed(color) # -1
        /\ bg_parsed(color) \in 0..255
        /\ bg_sum(color) = bg_parsed(color) + 10
        /\ bg_sum(color) <= 107
        /\ bg_sum(color) <= 255
        /\ bgCode = Dec(bg_sum(color))
        /\ bgCode = "40" => color = Named("Black")

\* the background code of BrightWhite, whose sum is the largest, has been
\* computed
C11_Witness ==
    /\ color = Named("BrightWhite")
    /\ bgCode = "107"
    /\ bg_sum(color) = 107

=============================================================================
